---- MODULE Spec2Model ----
(***************************************************************************)
(* Model of src/main.go: the Todo entity, the HTTP Todo adapter and the    *)
(* four use-case orchestrators.  The HTTP server is the environment: each  *)
(* request is answered by a nondeterministically chosen outcome.           *)
(***************************************************************************)
EXTENDS Integers, Sequences, FiniteSets, TLC

VARIABLES pc, op, args, env, trace, result, idx

vars == <<pc, op, args, env, trace, result, idx>>

(* ------------------------------ bounds --------------------------------- *)
\* longest JSON array the server answers GET /todos with
MaxRecords == 2
\* longest slice handed to CreateAllTodoUseCase.Run
MaxBatch == 3

(* ------------------------------ values --------------------------------- *)
\* the nil error
Nil == "<nil>"

UserIds == {-1, 0, 1}
Ids == {-2, 0, 2}
Titles == {"", "a"}

\* sequences over S of length 0..n
RECURSIVE SeqsUpTo(_, _)
SeqsUpTo(S, n) ==
  IF n = 0 THEN {<<>>}
  ELSE LET shorter == SeqsUpTo(S, n - 1)
       IN shorter \cup {Append(s, x) : s \in {t \in shorter : Len(t) = n - 1}, x \in S}

(* ------------------------------ entity --------------------------------- *)
\* NewTodo returns (*Todo, error); the pointer is a sequence of length 0 (nil) or 1
NewTodoSkipIdCheck(userId, id, title, completed) ==
  IF userId = 0 THEN [err |-> "userId must not be 0", todo |-> <<>>]
  ELSE IF title = "" THEN [err |-> "title can not be empty", todo |-> <<>>]
  ELSE [err |-> Nil,
        todo |-> <<[completed |-> completed, id |-> id, title |-> title, userId |-> userId]>>]

NewTodoSkipTitleCheck(userId, id, title, completed) ==
  IF userId = 0 THEN [err |-> "userId must not be 0", todo |-> <<>>]
  ELSE IF id = 0 THEN [err |-> "id must not be 0", todo |-> <<>>]
  ELSE [err |-> Nil,
        todo |-> <<[completed |-> completed, id |-> id, title |-> title, userId |-> userId]>>]

NewTodo(userId, id, title, completed) ==
  IF userId = 0 THEN [err |-> "userId must not be 0", todo |-> <<>>]
  ELSE IF id = 0 THEN [err |-> "id must not be 0", todo |-> <<>>]
  ELSE IF title = "" THEN [err |-> "title can not be empty", todo |-> <<>>]
  ELSE [err |-> Nil,
        todo |-> <<[completed |-> completed, id |-> id, title |-> title, userId |-> userId]>>]

UserId(t) == t.userId
Id(t) == t.id
Title(t) == t.title
Completed(t) == t.completed

(* ------------------------------- JSON ---------------------------------- *)
\* a JSON object: each member is absent (<<>>) or present with a value (<<v>>)
JsonObjects ==
  [completed : {<<>>, <<TRUE>>}, id : {<<-2>>, <<0>>, <<2>>},
   title : {<<t>> : t \in Titles}, userId : {<<>>, <<-1>>, <<1>>}]

\* a response body: not JSON at all, the literal null, one object, or an array of objects
ArrayBodies == {[elems |-> es, kind |-> "array", obj |-> <<>>] : es \in SeqsUpTo(JsonObjects, MaxRecords)}
ObjectBodies == {[elems |-> <<>>, kind |-> "object", obj |-> <<o>>] : o \in JsonObjects}
OtherBodies == {[elems |-> <<>>, kind |-> k, obj |-> <<>>] : k \in {"garbage", "null"}}

\* the zero value of HttpTodo
ZeroHttpTodo == [Completed |-> FALSE, Id |-> 0, Title |-> "", UserId |-> 0]

\* json.Unmarshal of one object into an HttpTodo: an absent key leaves the zero value
DecodeHttpTodo(obj) ==
  [Completed |-> IF obj.completed = <<>> THEN FALSE ELSE obj.completed[1],
   Id        |-> IF obj.id = <<>> THEN 0 ELSE obj.id[1],
   Title     |-> IF obj.title = <<>> THEN "" ELSE obj.title[1],
   UserId    |-> IF obj.userId = <<>> THEN 0 ELSE obj.userId[1]]

\* json.Unmarshal(b, &httpTodos): null leaves the nil slice, an object is a type error
UnmarshalList(body) ==
  IF body.kind = "array"
    THEN [err |-> Nil, list |-> [i \in 1..Len(body.elems) |-> DecodeHttpTodo(body.elems[i])]]
  ELSE IF body.kind = "null" THEN [err |-> Nil, list |-> <<>>]
  ELSE [err |-> "json error", list |-> <<>>]

\* json.Unmarshal(b, &h): null leaves the zero value, an array is a type error
UnmarshalOne(body) ==
  IF body.kind = "object" THEN [err |-> Nil, h |-> DecodeHttpTodo(body.obj[1])]
  ELSE IF body.kind = "null" THEN [err |-> Nil, h |-> ZeroHttpTodo]
  ELSE [err |-> "json error", h |-> ZeroHttpTodo]

\* json.Marshal of an HttpTodo: every key is written (it cannot fail for this struct)
MarshalHttpTodo(h) ==
  [completed |-> <<h.Completed>>, id |-> <<h.Id>>, title |-> <<h.Title>>, userId |-> <<h.UserId>>]

(* --------------------------- HTTP environment -------------------------- *)
GetStatusCodes == {200, 404, 500}
PostStatusCodes == {199, 200, 299, 300, 404, 500}

NoBody == [elems |-> <<>>, kind |-> "null", obj |-> <<>>]

\* what happens to one request: it cannot be built, the transport fails, or a
\* response arrives whose body may fail to read and whose Close may fail
Failures ==
  {[body |-> NoBody, closeErr |-> FALSE, kind |-> k, readErr |-> FALSE, status |-> 0] :
     k \in {"reqErr", "doErr"}}

Responses(statuses, bodies) ==
  {[body |-> b, closeErr |-> c, kind |-> "resp", readErr |-> FALSE, status |-> s] :
     s \in statuses, b \in bodies, c \in BOOLEAN}
  \cup
  {[body |-> NoBody, closeErr |-> c, kind |-> "resp", readErr |-> TRUE, status |-> s] :
     s \in statuses, c \in BOOLEAN}

FindAllEnvs == Failures \cup Responses(GetStatusCodes, ArrayBodies \cup OtherBodies \cup ObjectBodies)
FindByIdEnvs == Failures \cup Responses(GetStatusCodes, ObjectBodies \cup OtherBodies \cup {b \in ArrayBodies : Len(b.elems) = 0})
CreateEnvs == Failures \cup Responses(PostStatusCodes, {NoBody})

(* ------------------------------ events --------------------------------- *)
\* one http.DefaultClient.Do(req)
Do(m, p, n, b) ==
  [body |-> b, err |-> Nil, ev |-> "Do", id |-> n, method |-> m, path |-> p, ret |-> <<>>]
\* one resp.Body.Close()
Close ==
  [body |-> <<>>, err |-> Nil, ev |-> "Close", id |-> 0, method |-> "", path |-> "", ret |-> <<>>]
\* one call of a TodoRepository method, with what it returned
RepoCall(name, n, b, e, t) ==
  [body |-> b, err |-> e, ev |-> name, id |-> n, method |-> "", path |-> "", ret |-> t]

\* a return value: the Todos (none, one or a list), the error, and the panic value if any
Ret(todos, err, tr) == [err |-> err, panic |-> Nil, todos |-> todos, trace |-> tr]

Panic(v, tr) == [err |-> Nil, panic |-> v, todos |-> <<>>, trace |-> tr]

(* --------------------------- HttpTodoRepository ------------------------ *)
\* the loop of FindAll: one NewTodo per decoded record, the first failure ends the call
RECURSIVE BuildLoop(_, _, _)
BuildLoop(httpTodos, i, todos) ==
  IF i > Len(httpTodos) THEN [err |-> Nil, todos |-> todos]
  ELSE LET h == httpTodos[i]
           r == NewTodo(h.UserId, h.Id, h.Title, h.Completed)
       IN IF r.err # Nil THEN [err |-> r.err, todos |-> <<>>]
          ELSE BuildLoop(httpTodos, i + 1, Append(todos, r.todo[1]))

\* off by one: the last record is never appended
BuildTodosDropLast(httpTodos) ==
  IF Len(httpTodos) = 0 THEN BuildLoop(httpTodos, 1, <<>>)
  ELSE BuildLoop(SubSeq(httpTodos, 1, Len(httpTodos) - 1), 1, <<>>)

\* skip-and-continue: a failing record is left out, the error is kept
RECURSIVE SkipLoop(_, _, _, _)
SkipLoop(httpTodos, i, todos, err) ==
  IF i > Len(httpTodos) THEN [err |-> err, todos |-> todos]
  ELSE LET h == httpTodos[i]
           r == NewTodo(h.UserId, h.Id, h.Title, h.Completed)
       IN IF r.err # Nil THEN SkipLoop(httpTodos, i + 1, todos, IF err = Nil THEN r.err ELSE err)
          ELSE SkipLoop(httpTodos, i + 1, Append(todos, r.todo[1]), err)

BuildTodosSkipInvalid(httpTodos) == SkipLoop(httpTodos, 1, <<>>, Nil)

BuildTodos(httpTodos) == BuildLoop(httpTodos, 1, <<>>)

\* defer resp.Body.Close(): runs on every return after the response, its error is dropped
DeferClose(r) == [r EXCEPT !.trace = Append(@, Close)]

\* defer func() { if err := resp.Body.Close(); err != nil { panic(err) } }()
DeferCloseOrPanic(r, e) ==
  IF e.closeErr THEN Panic("close error", Append(r.trace, Close))
  ELSE [r EXCEPT !.trace = Append(@, Close)]

\* Close is called at the end instead of deferred: the early returns leak the body
HttpFindAllCloseAtEnd(e) ==
  LET req == <<Do("GET", "/todos", 0, <<>>)>>
  IN IF e.kind = "reqErr" THEN Ret(<<>>, "request error", <<>>)
     ELSE IF e.kind = "doErr" THEN Ret(<<>>, "transport error", req)
     ELSE IF e.readErr THEN Ret(<<>>, "read error", req)
     ELSE LET u == UnmarshalList(e.body)
          IN IF u.err # Nil THEN Ret(<<>>, u.err, req)
             ELSE LET b == BuildTodos(u.list)
                  IN DeferClose(Ret(b.todos, b.err, req))

HttpFindAll(e) ==
  LET req == <<Do("GET", "/todos", 0, <<>>)>>
  IN IF e.kind = "reqErr" THEN Ret(<<>>, "request error", <<>>)
     ELSE IF e.kind = "doErr" THEN Ret(<<>>, "transport error", req)
     ELSE DeferClose(
            IF e.readErr THEN Ret(<<>>, "read error", req)
            ELSE LET u == UnmarshalList(e.body)
                 IN IF u.err # Nil THEN Ret(<<>>, u.err, req)
                    ELSE LET b == BuildTodos(u.list)
                         IN Ret(b.todos, b.err, req))

HttpFindById(id, e) ==
  LET req == <<Do("GET", "/todos/%d", id, <<>>)>>
  IN IF e.kind = "reqErr" THEN Ret(<<>>, "request error", <<>>)
     ELSE IF e.kind = "doErr" THEN Ret(<<>>, "transport error", req)
     ELSE DeferCloseOrPanic(
            IF e.readErr THEN Ret(<<>>, "read error", req)
            ELSE LET u == UnmarshalOne(e.body)
                 IN IF u.err # Nil THEN Ret(<<>>, u.err, req)
                    ELSE LET r == NewTodo(u.h.UserId, u.h.Id, u.h.Title, u.h.Completed)
                         IN Ret(r.todo, r.err, req),
            e)

\* the upper end of the success range is taken inclusive
HttpCreateUpTo300(todo, e) ==
  LET h == [Completed |-> todo.completed, Id |-> todo.id, Title |-> todo.title, UserId |-> todo.userId]
      req == <<Do("POST", "/todos", 0, <<MarshalHttpTodo(h)>>)>>
  IN IF e.kind = "reqErr" THEN Ret(<<>>, "request error", <<>>)
     ELSE IF e.kind = "doErr" THEN Ret(<<>>, "transport error", req)
     ELSE DeferClose(
            IF e.status >= 200 /\ e.status <= 300 THEN Ret(<<>>, Nil, req)
            ELSE Ret(<<>>, "http error", req))

HttpCreate(todo, e) ==
  LET h == [Completed |-> todo.completed, Id |-> todo.id, Title |-> todo.title, UserId |-> todo.userId]
      req == <<Do("POST", "/todos", 0, <<MarshalHttpTodo(h)>>)>>
  IN IF e.kind = "reqErr" THEN Ret(<<>>, "request error", <<>>)
     ELSE IF e.kind = "doErr" THEN Ret(<<>>, "transport error", req)
     ELSE DeferClose(
            IF e.status >= 200 /\ e.status < 300 THEN Ret(<<>>, Nil, req)
            ELSE Ret(<<>>, "http error", req))

(* ------------------------------ use cases ------------------------------ *)
\* a repository call made by a use case, recorded with its argument and its error
Called(name, id, body, r) == [r EXCEPT !.trace = <<RepoCall(name, id, body, r.err, r.todos)>> \o @]

\* the loop of FindAllTodoUseCase.Run: each Todo is rebuilt through NewTodo
RECURSIVE RevalidateLoop(_, _, _)
RevalidateLoop(todos, i, vtodos) ==
  IF i > Len(todos) THEN [err |-> Nil, todos |-> vtodos]
  ELSE LET todo == todos[i]
           v == NewTodo(UserId(todo), Id(todo), Title(todo), Completed(todo))
       IN IF v.err # Nil THEN [err |-> v.err, todos |-> <<>>]
          ELSE RevalidateLoop(todos, i + 1, Append(vtodos, v.todo[1]))

\* the accessors are passed to NewTodo in the wrong order
RECURSIVE SwappedLoop(_, _, _)
SwappedLoop(todos, i, vtodos) ==
  IF i > Len(todos) THEN [err |-> Nil, todos |-> vtodos]
  ELSE LET todo == todos[i]
           v == NewTodo(Id(todo), UserId(todo), Title(todo), Completed(todo))
       IN IF v.err # Nil THEN [err |-> v.err, todos |-> <<>>]
          ELSE SwappedLoop(todos, i + 1, Append(vtodos, v.todo[1]))

RevalidateSwapped(todos) == SwappedLoop(todos, 1, <<>>)

Revalidate(todos) == RevalidateLoop(todos, 1, <<>>)

FindAllRun(e) ==
  LET r == Called("repo.FindAll", 0, <<>>, HttpFindAll(e))
  IN IF r.panic # Nil THEN r
     ELSE IF r.err # Nil THEN Ret(<<>>, r.err, r.trace)
     ELSE LET v == Revalidate(r.todos)
          IN Ret(v.todos, v.err, r.trace)

\* a failed repository call is tried once more
FindByIdRunRetry(id, e) ==
  LET r == Called("repo.FindById", id, <<>>, HttpFindById(id, e))
  IN IF r.panic # Nil THEN r
     ELSE IF r.err # Nil
       THEN LET r2 == Called("repo.FindById", id, <<>>, HttpFindById(id, e))
            IN Ret(<<>>, r2.err, r.trace \o r2.trace)
     ELSE Ret(r.todos, Nil, r.trace)

FindByIdRun(id, e) ==
  LET r == Called("repo.FindById", id, <<>>, HttpFindById(id, e))
  IN IF r.panic # Nil THEN r
     ELSE IF r.err # Nil THEN Ret(<<>>, r.err, r.trace)
     ELSE Ret(r.todos, Nil, r.trace)

CreateRun(todo, e) == Called("repo.Create", 0, <<todo>>, HttpCreate(todo, e))

(* ------------------------------- inputs -------------------------------- *)
ValidTodos ==
  {NewTodo(u, i, t, c).todo[1] :
     u \in UserIds \ {0}, i \in Ids \ {0}, t \in Titles \ {""}, c \in BOOLEAN}
Batches == SeqsUpTo({t \in ValidTodos : ~t.completed}, MaxBatch)

NoArgs == [completed |-> FALSE, id |-> 0, title |-> "", todos |-> <<>>, userId |-> 0]
NoEnv == [body |-> NoBody, closeErr |-> FALSE, kind |-> "none", readErr |-> FALSE, status |-> 0]
NoResult == [err |-> Nil, panic |-> Nil, todos |-> <<>>]
Result(r) == [err |-> r.err, panic |-> r.panic, todos |-> r.todos]

(* ------------------------------ behaviour ------------------------------ *)
Init ==
  /\ pc = "idle"
  /\ op = "none"
  /\ args = NoArgs
  /\ env = NoEnv
  /\ trace = <<>>
  /\ result = NoResult
  /\ idx = 0

\* one atomic invocation: the operation, its inputs, the environment's answer, its outcome
Invoke(name, a, e, r) ==
  /\ pc' = "done"
  /\ op' = name
  /\ args' = a
  /\ env' = e
  /\ trace' = r.trace
  /\ result' = Result(r)
  /\ idx' = 0

CallNewTodo ==
  /\ pc = "idle"
  /\ \E u \in UserIds, i \in Ids, t \in Titles, c \in BOOLEAN :
       LET r == NewTodo(u, i, t, c)
       IN Invoke("NewTodo", [NoArgs EXCEPT !.userId = u, !.id = i, !.title = t, !.completed = c],
                 NoEnv, Ret(r.todo, r.err, <<>>))

RepoFindAll ==
  /\ pc = "idle"
  /\ \E e \in FindAllEnvs : Invoke("HttpFindAll", NoArgs, e, HttpFindAll(e))

RepoFindById ==
  /\ pc = "idle"
  /\ \E id \in Ids, e \in FindByIdEnvs :
       Invoke("HttpFindById", [NoArgs EXCEPT !.id = id], e, HttpFindById(id, e))

RepoCreate ==
  /\ pc = "idle"
  /\ \E todo \in ValidTodos, e \in CreateEnvs :
       Invoke("HttpCreate", [NoArgs EXCEPT !.todos = <<todo>>], e, HttpCreate(todo, e))

UseCaseFindAll ==
  /\ pc = "idle"
  /\ \E e \in FindAllEnvs : Invoke("FindAllRun", NoArgs, e, FindAllRun(e))

UseCaseFindById ==
  /\ pc = "idle"
  /\ \E id \in Ids, e \in FindByIdEnvs :
       Invoke("FindByIdRun", [NoArgs EXCEPT !.id = id], e, FindByIdRun(id, e))

UseCaseCreate ==
  /\ pc = "idle"
  /\ \E todo \in ValidTodos, e \in CreateEnvs :
       Invoke("CreateRun", [NoArgs EXCEPT !.todos = <<todo>>], e, CreateRun(todo, e))

\* CreateAllTodoUseCase.Run, one loop iteration per step
CreateAllStart ==
  /\ pc = "idle"
  /\ \E todos \in Batches : args' = [NoArgs EXCEPT !.todos = todos]
  /\ pc' = "createAll"
  /\ op' = "CreateAllRun"
  /\ env' = NoEnv
  /\ trace' = <<>>
  /\ result' = NoResult
  /\ idx' = 1

\* the loop goes on after a failed Create
CreateAllStepContinue ==
  /\ pc = "createAll"
  /\ idx <= Len(args.todos)
  /\ \E e \in CreateEnvs :
       LET r == Called("repo.Create", 0, <<args.todos[idx]>>, HttpCreate(args.todos[idx], e))
       IN /\ env' = e
          /\ trace' = trace \o r.trace
          /\ result' = IF r.err # Nil THEN Result(r) ELSE result
          /\ pc' = pc
          /\ idx' = idx + 1
  /\ UNCHANGED <<op, args>>

CreateAllStep ==
  /\ pc = "createAll"
  /\ idx <= Len(args.todos)
  /\ \E e \in CreateEnvs :
       LET r == Called("repo.Create", 0, <<args.todos[idx]>>, HttpCreate(args.todos[idx], e))
       IN /\ env' = e
          /\ trace' = trace \o r.trace
          /\ IF r.err # Nil
               THEN /\ result' = Result(r)
                    /\ pc' = "done"
                    /\ idx' = idx
               ELSE /\ result' = result
                    /\ pc' = pc
                    /\ idx' = idx + 1
  /\ UNCHANGED <<op, args>>

CreateAllReturn ==
  /\ pc = "createAll"
  /\ idx > Len(args.todos)
  /\ result' = NoResult
  /\ pc' = "done"
  /\ UNCHANGED <<op, args, env, trace, idx>>

\* the caller takes the result; nothing of an invocation outlives it
Return ==
  /\ pc = "done"
  /\ pc' = "idle"
  /\ op' = "none"
  /\ args' = NoArgs
  /\ env' = NoEnv
  /\ trace' = <<>>
  /\ result' = NoResult
  /\ idx' = 0

Next ==
  \/ CallNewTodo
  \/ RepoFindAll
  \/ RepoFindById
  \/ RepoCreate
  \/ UseCaseFindAll
  \/ UseCaseFindById
  \/ UseCaseCreate
  \/ CreateAllStart
  \/ CreateAllStep
  \/ CreateAllReturn
  \/ Return

Spec == Init /\ [][Next]_vars

(* ------------------------------ properties ----------------------------- *)
Returned == pc = "done" /\ result.panic = Nil
Success(status) == status \in 200..299
Responded == env.kind = "resp"
Events(name) == SelectSeq(trace, LAMBDA x : x.ev = name)
RepoEvents == SelectSeq(trace, LAMBDA x : x.ev \in {"repo.FindAll", "repo.FindById", "repo.Create"})

\* a source record, as sent, passes Todo validation
Passes(o) ==
  /\ o.userId # <<>> /\ o.userId[1] # 0
  /\ o.id # <<>> /\ o.id[1] # 0
  /\ o.title # <<>> /\ o.title[1] # ""

\* the server answered GET /todos with a readable JSON array
ArrayAnswer == Responded /\ ~env.readErr /\ env.body.kind = "array"

\* C1: NewTodo fails, with no Todo, exactly when userId = 0 or id = 0 or
\* title = ""; otherwise it succeeds and the accessors give back the inputs.
C1_NewTodoContract ==
  (pc = "done" /\ op = "NewTodo") =>
    LET bad == args.userId = 0 \/ args.id = 0 \/ args.title = ""
    IN /\ result.panic = Nil
       /\ (result.err # Nil) <=> bad
       /\ bad => result.todos = <<>>
       /\ ~bad => /\ Len(result.todos) = 1
                  /\ UserId(result.todos[1]) = args.userId
                  /\ Id(result.todos[1]) = args.id
                  /\ Title(result.todos[1]) = args.title
                  /\ Completed(result.todos[1]) = args.completed

C1_Witness ==
  /\ pc = "done" /\ op = "NewTodo"
  /\ args.userId = -1 /\ args.id = 2 /\ args.title = "a" /\ args.completed
  /\ result.err = Nil /\ Len(result.todos) = 1

TodoOps == {"NewTodo", "HttpFindAll", "HttpFindById", "FindAllRun", "FindByIdRun"}

\* C2 as stated: every Todo that NewTodo, FindAll, FindById or
\* FindAllTodoUseCase.Run returns has userId > 0, id > 0 and a non-empty title.
C2_Original ==
  (pc = "done" /\ op \in TodoOps) =>
    \A i \in 1..Len(result.todos) :
      /\ result.todos[i].userId > 0
      /\ result.todos[i].id > 0
      /\ result.todos[i].title # ""

\* C2 as amended: every returned Todo has userId # 0, id # 0 and a non-empty
\* title; negative userId and id are accepted.
C2_TodoFieldsNonZero ==
  (pc = "done" /\ op \in TodoOps) =>
    \A i \in 1..Len(result.todos) :
      /\ result.todos[i].userId # 0
      /\ result.todos[i].id # 0
      /\ result.todos[i].title # ""

C2_Witness ==
  /\ pc = "done" /\ op = "HttpFindAll"
  /\ Len(result.todos) >= 1
  /\ result.todos[1].userId < 0
  /\ result.todos[1].id < 0

\* C3: when GET /todos is answered with a JSON array of N records that all
\* pass validation, FindAll and FindAllTodoUseCase.Run return a nil error and
\* N Todos, the i-th carrying the fields of the i-th record.
C3_FindAllPreservesRecords ==
  (pc = "done" /\ op \in {"HttpFindAll", "FindAllRun"} /\ ArrayAnswer
     /\ \A i \in 1..Len(env.body.elems) : Passes(env.body.elems[i])) =>
    /\ result.panic = Nil
    /\ result.err = Nil
    /\ Len(result.todos) = Len(env.body.elems)
    /\ \A i \in 1..Len(env.body.elems) :
         /\ result.todos[i].userId = env.body.elems[i].userId[1]
         /\ result.todos[i].id = env.body.elems[i].id[1]
         /\ result.todos[i].title = env.body.elems[i].title[1]
         /\ result.todos[i].completed = (env.body.elems[i].completed = <<TRUE>>)

C3_Witness ==
  /\ pc = "done" /\ op = "FindAllRun" /\ ArrayAnswer
  /\ Len(env.body.elems) = 2
  /\ Passes(env.body.elems[1]) /\ Passes(env.body.elems[2])
  /\ env.body.elems[1] # env.body.elems[2]
  /\ Len(result.todos) = 2

\* C4: when one record of the array fails validation, FindAll returns no
\* Todo at all and the error NewTodo gives for the first failing record.
C4_FindAllFailsEntirely ==
  (pc = "done" /\ op = "HttpFindAll" /\ ArrayAnswer
     /\ \E i \in 1..Len(env.body.elems) : ~Passes(env.body.elems[i])) =>
    LET first == CHOOSE i \in 1..Len(env.body.elems) :
                   /\ ~Passes(env.body.elems[i])
                   /\ \A j \in 1..(i - 1) : Passes(env.body.elems[j])
        o == env.body.elems[first]
        expected == NewTodo(IF o.userId = <<>> THEN 0 ELSE o.userId[1],
                            IF o.id = <<>> THEN 0 ELSE o.id[1],
                            IF o.title = <<>> THEN "" ELSE o.title[1],
                            o.completed = <<TRUE>>).err
    IN /\ result.panic = Nil
       /\ result.todos = <<>>
       /\ result.err # Nil
       /\ result.err = expected

C4_Witness ==
  /\ pc = "done" /\ op = "HttpFindAll" /\ ArrayAnswer
  /\ Len(env.body.elems) = 2
  /\ Passes(env.body.elems[1])
  /\ env.body.elems[2].title = <<"">>
  /\ result.err = "title can not be empty"
  /\ result.todos = <<>>

\* C5: when the POST of Create is answered, Create returns nil exactly for a
\* status in 200..299 and the error "http error" for every other status.
C5_CreateStatusRange ==
  (pc = "done" /\ op = "HttpCreate" /\ Responded) =>
    /\ result.panic = Nil
    /\ (result.err = Nil) <=> Success(env.status)
    /\ ~Success(env.status) => result.err = "http error"

C5_Witness ==
  /\ pc = "done" /\ op = "HttpCreate" /\ Responded
  /\ env.status = 299
  /\ result.err = Nil

\* C6: when the GET of FindAll or FindById is answered with a status outside
\* 200..299, the call returns a non-nil error and no Todo, whatever the body.
C6_NonSuccessStatusIsError ==
  (Returned /\ op \in {"HttpFindAll", "HttpFindById"} /\ Responded /\ ~Success(env.status)) =>
    /\ result.err # Nil
    /\ result.todos = <<>>

\* C7: CreateAllTodoUseCase.Run calls Create on the Todos in order, one call
\* each, stops at the first failing call and returns its error, issues no
\* request other than the POSTs of the Todos it reached, and returns nil only
\* after all calls succeeded.
C7_CreateAllStopsAtFirstFailure ==
  (op = "CreateAllRun") =>
    LET calls == Events("repo.Create")
        posts == Events("Do")
        n == Len(args.todos)
    IN /\ Len(calls) <= n
       /\ Len(RepoEvents) = Len(calls)
       /\ \A i \in 1..Len(calls) : calls[i].body = <<args.todos[i]>>
       /\ \A i \in 1..(Len(calls) - 1) : calls[i].err = Nil
       /\ Len(posts) <= Len(calls)
       /\ \A i \in 1..Len(posts) :
            /\ posts[i].method = "POST"
            /\ posts[i].path = "/todos"
            /\ posts[i].body = <<MarshalHttpTodo([Completed |-> args.todos[i].completed,
                                                  Id |-> args.todos[i].id,
                                                  Title |-> args.todos[i].title,
                                                  UserId |-> args.todos[i].userId])>>
       /\ pc = "createAll" =>
            /\ Len(calls) = idx - 1
            /\ \A i \in 1..Len(calls) : calls[i].err = Nil
       /\ (pc = "done" /\ result.err = Nil) =>
            /\ Len(calls) = n
            /\ \A i \in 1..n : calls[i].err = Nil
       /\ (pc = "done" /\ result.err # Nil) =>
            /\ Len(calls) >= 1
            /\ calls[Len(calls)].err = result.err
       /\ pc = "done" => result.panic = Nil /\ result.todos = <<>>

C7_Witness ==
  /\ pc = "done" /\ op = "CreateAllRun"
  /\ Len(args.todos) = 3
  /\ result.err = "http error"
  /\ Len(Events("repo.Create")) = 2
  /\ Events("repo.Create")[1].err = Nil

\* C8: FindAllTodoUseCase.Run, FindByIdTodoUseCase.Run and
\* CreateTodoUseCase.Run each make exactly one repository call and hand a
\* repository error on unchanged with no Todo; every adapter operation issues
\* at most one HTTP request.
C8_OneCallNoRetry ==
  /\ (pc = "done" /\ op \in {"FindAllRun", "FindByIdRun", "CreateRun"}) =>
       /\ Len(RepoEvents) = 1
       /\ RepoEvents[1].ev = (CASE op = "FindAllRun" -> "repo.FindAll"
                                [] op = "FindByIdRun" -> "repo.FindById"
                                [] op = "CreateRun" -> "repo.Create")
       /\ RepoEvents[1].err # Nil =>
            /\ result.err = RepoEvents[1].err
            /\ result.todos = <<>>
            /\ result.panic = Nil
       /\ Len(Events("Do")) <= 1
  /\ (pc = "done" /\ op \in {"HttpFindAll", "HttpFindById", "HttpCreate"}) =>
       Len(Events("Do")) <= 1
  /\ (op = "CreateAllRun") => Len(Events("Do")) <= Len(Events("repo.Create"))

C8_Witness ==
  /\ pc = "done" /\ op = "FindByIdRun"
  /\ env.kind = "doErr"
  /\ result.err = "transport error"
  /\ Len(Events("repo.FindById")) = 1
  /\ Len(Events("Do")) = 1

\* C9: whenever the repository's FindAll returns Todos without error,
\* FindAllTodoUseCase.Run returns without error the same Todos in the same order.
C9_RevalidationIsIdentity ==
  (pc = "done" /\ op = "FindAllRun" /\ Len(Events("repo.FindAll")) >= 1
     /\ result.panic = Nil /\ Events("repo.FindAll")[1].err = Nil) =>
    /\ result.err = Nil
    /\ result.todos = Events("repo.FindAll")[1].ret

C9_Witness ==
  /\ pc = "done" /\ op = "FindAllRun"
  /\ Len(Events("repo.FindAll")) = 1
  /\ Events("repo.FindAll")[1].err = Nil
  /\ Len(Events("repo.FindAll")[1].ret) = 2
  /\ Events("repo.FindAll")[1].ret[1].userId # Events("repo.FindAll")[1].ret[1].id
  /\ result.err = Nil

AdapterOps == {"HttpFindAll", "HttpFindById", "HttpCreate"}

\* the body is closed once, as the last step of the call, exactly when a response arrived
ClosedOnce ==
  /\ Responded => /\ Len(Events("Close")) = 1
                  /\ trace[Len(trace)].ev = "Close"
  /\ ~Responded => Len(Events("Close")) = 0

\* what the same call returns when Close succeeds
WithoutCloseError ==
  LET e == [env EXCEPT !.closeErr = FALSE]
  IN CASE op = "HttpFindAll" -> Result(HttpFindAll(e))
       [] op = "HttpFindById" -> Result(HttpFindById(args.id, e))
       [] op = "HttpCreate" -> Result(HttpCreate(args.todos[1], e))

\* C10 as stated: in FindAll, FindById and Create the response body is closed
\* exactly once on every path after the response arrived, never when no
\* response arrived, and closing never changes the result of the call.
C10_Original ==
  (pc = "done" /\ op \in AdapterOps) =>
    /\ ClosedOnce
    /\ result.panic = Nil
    /\ result = WithoutCloseError

\* C10 as amended: the body is closed exactly once when a response arrived and
\* never otherwise; a failing Close leaves the result of FindAll and Create
\* unchanged, and makes FindById panic with the Close error instead of returning.
C10_CloseOnceAndItsEffect ==
  (pc = "done" /\ op \in AdapterOps) =>
    /\ ClosedOnce
    /\ op \in {"HttpFindAll", "HttpCreate"} =>
         /\ result.panic = Nil
         /\ result = WithoutCloseError
    /\ op = "HttpFindById" =>
         /\ env.closeErr => result = [err |-> Nil, panic |-> "close error", todos |-> <<>>]
         /\ ~env.closeErr => result.panic = Nil

C10_Witness ==
  /\ pc = "done" /\ op = "HttpFindById"
  /\ Responded /\ env.closeErr /\ ~env.readErr /\ env.body.kind = "object"
  /\ Passes(env.body.obj[1])
  /\ result.panic = "close error"
  /\ Len(Events("Close")) = 1

====
